---- MODULE Spec2Model ----
(***************************************************************************)
(* Model of the multi-user todo backend: the task routes                   *)
(* (backend/src/routes/tasks.py), the token and password utilities         *)
(* (backend/src/auth.py) and the register/login routes                     *)
(* (backend/src/routes/auth.py).                                           *)
(*                                                                         *)
(* Strings are sequences of one-character strings, so that strip(),        *)
(* lower(), replace() and LIKE are computed and not assumed.  An Optional  *)
(* value is None (the empty tuple) or Some(x) (the one-element tuple).     *)
(***************************************************************************)
EXTENDS Integers, Sequences, FiniteSets, TLC

VARIABLES
    tasks,      \* the task table: a set of rows
    next_id,    \* the task table's autoincrement counter
    users,      \* the user table: a set of rows
    now,        \* the server clock (datetime.utcnow()), in seconds
    ticks,      \* how many times the clock has advanced
    issued,     \* the last token create_access_token returned, with its request
    plain,      \* history: the password each registered email was registered with
    resp,       \* the last request and its response
    registering, \* the POST /register requests being handled, each at its step
    email_unique \* whether the user table refuses a second row with an email

vars == <<tasks, next_id, users, now, ticks, issued, plain, resp, registering, email_unique>>

None == <<>>
Some(x) == <<x>>

(***************************************************************************)
(* Bounds of the model.                                                    *)
(***************************************************************************)
MaxTasks == 2
MaxTicks == 2
NumSalts == 2
MaxGuarded == 1

UserIds == {"u1", "u2"}

(***************************************************************************)
(* str methods and SQL operators used by the handlers.                     *)
(***************************************************************************)
Upper == [c \in {"A", "C", "D", "E", "G", "H", "I", "L", "M", "N", "O", "P", "S", "T", "W"} |->
    CASE c = "A" -> "a" [] c = "C" -> "c" [] c = "D" -> "d" [] c = "E" -> "e"
      [] c = "G" -> "g" [] c = "H" -> "h" [] c = "I" -> "i" [] c = "L" -> "l"
      [] c = "M" -> "m" [] c = "N" -> "n" [] c = "O" -> "o" [] c = "P" -> "p"
      [] c = "S" -> "s" [] c = "T" -> "t" [] c = "W" -> "w"]

\* str.lower()
lower(s) == [i \in 1..Len(s) |-> IF s[i] \in DOMAIN Upper THEN Upper[s[i]] ELSE s[i]]

IsSpace(c) == c \in {" ", "\t"}

RECURSIVE lstrip(_)
lstrip(s) == IF s # <<>> /\ IsSpace(Head(s)) THEN lstrip(Tail(s)) ELSE s

RECURSIVE rstrip(_)
rstrip(s) == IF s # <<>> /\ IsSpace(s[Len(s)]) THEN rstrip(SubSeq(s, 1, Len(s) - 1)) ELSE s

\* str.strip()
strip(s) == rstrip(lstrip(s))

\* `x is not None and isinstance(x, str) and x.strip()` of an Optional[str] parameter
supplied(p) == p # None /\ strip(p[1]) # <<>>

\* str.replace(old, new) for a one-character old
RECURSIVE replace(_, _, _)
replace(s, old, new) ==
    IF s = <<>> THEN <<>>
    ELSE (IF Head(s) = old THEN new ELSE <<Head(s)>>) \o replace(Tail(s), old, new)

\* SQL LIKE: % matches any run of characters, _ any one character
RECURSIVE like(_, _)
like(s, pat) ==
    IF pat = <<>> THEN s = <<>>
    ELSE IF Head(pat) = "%" THEN like(s, Tail(pat)) \/ (s # <<>> /\ like(Tail(s), pat))
    ELSE s # <<>> /\ (Head(pat) = "_" \/ Head(pat) = Head(s)) /\ like(Tail(s), Tail(pat))

(***************************************************************************)
(* The task table and the request bodies of the task routes.               *)
(***************************************************************************)
\* the fields of schemas.tasks.TaskUpdate
TaskUpdateFields == {"title", "description", "completed", "priority", "tags", "due_date"}

\* the fields of schemas.tasks.TaskCreate
TaskCreateFields == {"title", "description", "priority", "tags", "due_date"}

\* task_update.dict(exclude_unset=True): the schema's fields that the body sets
TaskUpdate_dict(body) == [f \in DOMAIN body \cap TaskUpdateFields |-> body[f]]

\* task.dict(): the schema's fields, unset optional ones None, and an owner
\* field when the body carries one
TaskCreate_dict(body) ==
    [f \in TaskCreateFields \cup (DOMAIN body \cap {"user_id"}) |->
        IF f \in DOMAIN body THEN body[f] ELSE None]

\* Task(**fields, user_id=...): a new row, completed false, the server's timestamps
Task_new(fields, user_id, id) ==
    [id |-> id, user_id |-> user_id, title |-> fields.title,
     description |-> fields.description, completed |-> FALSE,
     priority |-> fields.priority, tags |-> fields.tags, due_date |-> fields.due_date,
     created_at |-> now, updated_at |-> now]

\* a faulty create_task_row: Task(**task.dict()), the owner taken from the body
create_task_row_owner_from_body(body, current_user_id, id) ==
    Task_new(TaskCreate_dict(body),
             IF "user_id" \in DOMAIN body THEN body.user_id ELSE current_user_id, id)

\* Task(**task.dict(exclude={'user_id'}), user_id=current_user_id)
create_task_row(body, current_user_id, id) ==
    Task_new([f \in DOMAIN TaskCreate_dict(body) \ {"user_id"} |-> TaskCreate_dict(body)[f]],
             current_user_id, id)

\* a faulty select_task: the row is looked up by id alone
select_task_by_id_only(task_id, current_user_id) ==
    {t \in tasks : t.id = task_id}

\* select(Task).where(Task.id == task_id, Task.user_id == current_user_id)
select_task(task_id, current_user_id) ==
    {t \in tasks : t.id = task_id /\ t.user_id = current_user_id}

\* a faulty apply_update: the row is rebuilt from the body, so that a field the
\* body leaves out falls back to its default (completed false, the others None)
apply_update_rebuilds_row(t, update_data) ==
    [f \in DOMAIN t |-> IF f \in DOMAIN update_data THEN update_data[f]
                        ELSE IF f = "completed" THEN FALSE
                        ELSE IF f \in TaskUpdateFields THEN None ELSE t[f]]

\* for field, value in update_data.items(): setattr(db_task, field, value)
apply_update(t, update_data) ==
    [f \in DOMAIN t |-> IF f \in DOMAIN update_data THEN update_data[f] ELSE t[f]]

S_a == <<"a">>
S_b == <<"b">>
S_high == <<"h", "i", "g", "h">>
S_low == <<"l", "o", "w">>
S_medium == <<"m", "e", "d", "i", "u", "m">>

\* request bodies of POST /tasks
CreateBodies ==
    { [title |-> S_a],
      [title |-> S_b, user_id |-> "u1"],
      [title |-> S_a, user_id |-> "u2"] }

\* request bodies of PUT and PATCH /tasks/{id}
UpdateBodies ==
    { [title |-> S_b, completed |-> TRUE],
      [user_id |-> "u1", title |-> S_a],
      [user_id |-> "u2", completed |-> FALSE] }

TaskIds == 1..(MaxTasks + 1)

by_id(op, uid, task_id, status, body) ==
    [op |-> op, requester |-> uid, task_id |-> task_id, status |-> status, body |-> body]

\* a request that found its row: db_task as selected, the body of the request
\* (None when it takes none) and the row returned after commit and refresh
by_id_changed(op, uid, db_task, payload, updated) ==
    [op |-> op, requester |-> uid, task_id |-> db_task.id, status |-> 200,
     body |-> Some(updated), found |-> db_task, payload |-> payload]

AuthVarsUnchanged == UNCHANGED <<users, now, ticks, issued, plain, registering, email_unique>>

\* POST /tasks
create_task(uid, body) ==
    /\ next_id <= MaxTasks
    /\ LET db_task == create_task_row(body, uid, next_id) IN
        /\ tasks' = tasks \cup {db_task}
        /\ next_id' = next_id + 1
        /\ resp' = [op |-> "create", requester |-> uid, task_id |-> db_task.id,
                    status |-> 201, body |-> Some(db_task), payload |-> body]
    /\ AuthVarsUnchanged

\* GET /tasks/{task_id}
get_task(uid, task_id) ==
    /\ LET found == select_task(task_id, uid) IN
        resp' = IF found = {} THEN by_id("get", uid, task_id, 404, None)
                ELSE by_id("get", uid, task_id, 200, Some(CHOOSE t \in found : TRUE))
    /\ UNCHANGED <<tasks, next_id>>
    /\ AuthVarsUnchanged

\* the body shared by PUT /tasks/{task_id} and PATCH /tasks/{task_id}
update_with(op, uid, task_id, body) ==
    /\ LET found == select_task(task_id, uid) IN
        IF found = {}
        THEN /\ resp' = by_id(op, uid, task_id, 404, None)
             /\ UNCHANGED tasks
        ELSE LET db_task == CHOOSE t \in found : TRUE
                 updated == apply_update(db_task, TaskUpdate_dict(body))
             IN /\ tasks' = (tasks \ {db_task}) \cup {updated}
                /\ resp' = by_id_changed(op, uid, db_task, Some(body), updated)
    /\ UNCHANGED next_id
    /\ AuthVarsUnchanged

\* PUT /tasks/{task_id}
update_task(uid, task_id, body) == update_with("put", uid, task_id, body)

\* PATCH /tasks/{task_id}
partial_update_task(uid, task_id, body) == update_with("patch", uid, task_id, body)

\* DELETE /tasks/{task_id}
delete_task(uid, task_id) ==
    /\ LET found == select_task(task_id, uid) IN
        IF found = {}
        THEN /\ resp' = by_id("delete", uid, task_id, 404, None)
             /\ UNCHANGED tasks
        ELSE /\ tasks' = tasks \ found
             /\ resp' = by_id("delete", uid, task_id, 204, None)
    /\ UNCHANGED next_id
    /\ AuthVarsUnchanged

\* PATCH /tasks/{task_id}/complete
toggle_task_completion(uid, task_id) ==
    /\ LET found == select_task(task_id, uid) IN
        IF found = {}
        THEN /\ resp' = by_id("toggle", uid, task_id, 404, None)
             /\ UNCHANGED tasks
        ELSE LET db_task == CHOOSE t \in found : TRUE
                 updated == [db_task EXCEPT !.completed = ~db_task.completed]
             IN /\ tasks' = (tasks \ {db_task}) \cup {updated}
                /\ resp' = by_id_changed("toggle", uid, db_task, None, updated)
    /\ UNCHANGED next_id
    /\ AuthVarsUnchanged

NoResp == [op |-> "none"]

\* no POST /register request has arrived
NoRequests == <<>>

Init ==
    /\ tasks = {}
    /\ next_id = 1
    /\ users = {}
    /\ now = 0
    /\ ticks = 0
    /\ issued = None
    /\ plain = <<>>
    /\ resp = NoResp
    /\ registering = NoRequests
    /\ email_unique = TRUE

Next ==
    \/ \E uid \in UserIds, body \in CreateBodies : create_task(uid, body)
    \/ \E uid \in UserIds, id \in TaskIds : get_task(uid, id)
    \/ \E uid \in UserIds, id \in TaskIds, body \in UpdateBodies : update_task(uid, id, body)
    \/ \E uid \in UserIds, id \in TaskIds, body \in UpdateBodies : partial_update_task(uid, id, body)
    \/ \E uid \in UserIds, id \in TaskIds : delete_task(uid, id)
    \/ \E uid \in UserIds, id \in TaskIds : toggle_task_completion(uid, id)

Spec == Init /\ [][Next]_vars

(***************************************************************************)
(* GET /tasks: the query get_tasks builds and what the store answers.      *)
(***************************************************************************)
MaxRows == 3
MaxLimit == 100

S_completed == <<"c", "o", "m", "p", "l", "e", "t", "e", "d">>
S_pending == <<"p", "e", "n", "d", "i", "n", "g">>
S_asc == <<"a", "s", "c">>
S_desc == <<"d", "e", "s", "c">>
S_ab == <<"a", "b">>
S_blank == <<" ">>
S_apostrophe == <<"'">>
S_percent == <<"%">>
S_underscore == <<"_">>
S_utc == <<"+", "0", "0", ":", "0", "0">>

\* the tags column: the JSON text of a list of tags
J_a == <<"[", "\"", "a", "\"", "]">>
J_b == <<"[", "\"", "b", "\"", "]">>
J_a_apostrophe == <<"[", "\"", "a", "'", "\"", "]">>

Letters == <<"a", "b", "c", "d", "e", "f", "g", "h", "i", "j", "k", "l", "m",
             "n", "o", "p", "q", "r", "s", "t", "u", "v", "w", "x", "y", "z">>

ord(c) == CHOOSE i \in 1..Len(Letters) : Letters[i] = c

Digits == <<"0", "1", "2", "3", "4", "5", "6", "7", "8", "9">>

IsDigit(c) == \E i \in 1..Len(Digits) : Digits[i] = c

digit(c) == (CHOOSE i \in 1..Len(Digits) : Digits[i] = c) - 1

\* datetime.fromisoformat on the model's timestamps: two digits, with an
\* optional +00:00 offset; None stands for the ValueError of any other text
fromisoformat(s) ==
    LET core == IF Len(s) = 2 + Len(S_utc) /\ SubSeq(s, 3, Len(s)) = S_utc
                THEN SubSeq(s, 1, 2) ELSE s
    IN IF Len(core) = 2 /\ IsDigit(core[1]) /\ IsDigit(core[2])
       THEN Some(10 * digit(core[1]) + digit(core[2]))
       ELSE None

\* a faulty owner_clause: the query is not anchored on the requester
owner_clause_dropped(current_user_id, t) == TRUE

\* select(Task).where(Task.user_id == current_user_id)
owner_clause(current_user_id, t) == t.user_id = current_user_id

\* the status filter
status_clause(q, t) ==
    IF supplied(q.status)
    THEN LET status_lower == lower(q.status[1])
         IN IF status_lower = S_completed THEN t.completed = TRUE
            ELSE IF status_lower = S_pending THEN t.completed = FALSE
            ELSE TRUE
    ELSE TRUE

\* the priority filter; a NULL priority equals nothing
priority_clause(q, t) ==
    IF supplied(q.priority)
    THEN t.priority # None /\ t.priority[1] = lower(q.priority[1])
    ELSE TRUE

\* the tag filter: tags IS NOT NULL AND tags LIKE '%<tag with ' doubled>%'
tag_clause(q, t) ==
    IF supplied(q.tag)
    THEN LET escaped_tag == replace(q.tag[1], "'", <<"'", "'">>)
         IN t.tags # None /\ like(t.tags[1], <<"%">> \o escaped_tag \o <<"%">>)
    ELSE TRUE

\* column.contains(x): column LIKE '%' || x || '%', NULL for a NULL column
contains(column, x) == column # None /\ like(column[1], <<"%">> \o x \o <<"%">>)

\* the search filter
search_clause(q, t) ==
    IF supplied(q.search)
    THEN contains(Some(t.title), q.search[1]) \/ contains(t.description, q.search[1])
    ELSE TRUE

\* the due_before filter; an unparsable value applies no filter
due_before_clause(q, t) ==
    IF supplied(q.due_before)
    THEN LET due_before_date == fromisoformat(replace(q.due_before[1], "Z", S_utc))
         IN IF due_before_date = None THEN TRUE
            ELSE t.due_date # None /\ t.due_date[1] <= due_before_date[1]
    ELSE TRUE

\* the due_after filter; an unparsable value applies no filter
due_after_clause(q, t) ==
    IF supplied(q.due_after)
    THEN LET due_after_date == fromisoformat(replace(q.due_after[1], "Z", S_utc))
         IN IF due_after_date = None THEN TRUE
            ELSE t.due_date # None /\ t.due_date[1] >= due_after_date[1]
    ELSE TRUE

\* the rows the WHERE clauses select
where(current_user_id, q) ==
    {t \in tasks :
        /\ owner_clause(current_user_id, t)
        /\ status_clause(q, t)
        /\ priority_clause(q, t)
        /\ tag_clause(q, t)
        /\ search_clause(q, t)
        /\ due_before_clause(q, t)
        /\ due_after_clause(q, t)}

valid_sort_fields == {"created_at", "due_date", "priority", "title", "updated_at", "completed"}

\* the ORDER BY the query carries: None, or Some of a column and a direction
order_by(q) ==
    IF q.sort \in valid_sort_fields
    THEN IF q.order # <<>> /\ lower(q.order) = S_asc
         THEN Some([field |-> q.sort, asc |-> TRUE])
         ELSE Some([field |-> q.sort, asc |-> FALSE])
    ELSE None

RECURSIVE str_le(_, _)
str_le(a, b) ==
    \/ a = <<>>
    \/ /\ b # <<>>
       /\ \/ ord(Head(a)) < ord(Head(b))
          \/ Head(a) = Head(b) /\ str_le(Tail(a), Tail(b))

\* a <= b in the store's order of a column's values; NULL sorts as the largest
key_le(field, a, b) ==
    CASE field \in {"created_at", "updated_at"} -> a[field] <= b[field]
      [] field = "completed" -> ~a.completed \/ b.completed
      [] field = "due_date" ->
            b.due_date = None \/ (a.due_date # None /\ a.due_date[1] <= b.due_date[1])
      [] field = "priority" ->
            b.priority = None \/ (a.priority # None /\ str_le(a.priority[1], b.priority[1]))
      [] field = "title" -> str_le(a.title, b.title)

\* rows is in the order ORDER BY field ASC (or DESC) allows
ordered(rows, field, asc) ==
    \A i \in 1..(Len(rows) - 1) :
        IF asc THEN key_le(field, rows[i], rows[i + 1])
        ELSE key_le(field, rows[i + 1], rows[i])

\* every order in which the store may return the selected rows: any order
\* when the query has no ORDER BY, any order among equal keys otherwise
result_orders(selected, ob) ==
    {rows \in [1..Cardinality(selected) -> selected] :
        /\ \A i, j \in 1..Cardinality(selected) : i # j => rows[i] # rows[j]
        /\ ob # None => ordered(rows, ob[1].field, ob[1].asc)}

\* query.offset(skip).limit(limit)
paginate(rows, skip, limit) ==
    SubSeq(rows, skip + 1, IF skip + limit < Len(rows) THEN skip + limit ELSE Len(rows))

\* a faulty valid_pagination: limit is declared without le=100
valid_pagination_no_le(skip, limit) == skip >= 0

\* skip: int = Query(0, ge=0), limit: int = Query(100, le=100)
valid_pagination(skip, limit) == skip >= 0 /\ limit <= MaxLimit

list_resp(uid, q, status, body) ==
    [op |-> "list", requester |-> uid, query |-> q, status |-> status, body |-> body]

\* GET /tasks.  A parameter the declared bounds refuse is answered 422 before
\* the handler runs; a negative LIMIT is refused by the store.
get_tasks(uid, q) ==
    /\ IF ~valid_pagination(q.skip, q.limit)
       THEN resp' = list_resp(uid, q, 422, None)
       ELSE IF q.limit < 0
       THEN resp' = list_resp(uid, q, 500, None)
       ELSE \E rows \in result_orders(where(uid, q), order_by(q)) :
               resp' = list_resp(uid, q, 200, Some(paginate(rows, q.skip, q.limit)))
    /\ UNCHANGED <<tasks, next_id>>
    /\ AuthVarsUnchanged

task_row(id, user_id, title, description, completed, priority, tags, due_date, created_at, updated_at) ==
    [id |-> id, user_id |-> user_id, title |-> title, description |-> description,
     completed |-> completed, priority |-> priority, tags |-> tags, due_date |-> due_date,
     created_at |-> created_at, updated_at |-> updated_at]

\* rows the task routes can have stored
Fixture ==
    { task_row(1, "u1", S_a, None, FALSE, Some(S_high), Some(J_a), Some(5), 1, 6),
      task_row(2, "u1", S_b, Some(S_a), TRUE, Some(S_high), Some(J_a_apostrophe), None, 2, 5),
      task_row(3, "u1", S_ab, None, TRUE, Some(S_low), None, Some(9), 3, 4),
      task_row(4, "u2", S_a, None, TRUE, Some(S_high), Some(J_a), Some(5), 2, 2),
      task_row(5, "u1", S_b, None, FALSE, None, Some(J_b), Some(5), 3, 7),
      task_row(6, "u2", S_b, None, FALSE, Some(S_medium), None, Some(1), 4, 4) }

QueryStores == {S \in SUBSET Fixture : Cardinality(S) <= MaxRows}

DefaultQuery ==
    [skip |-> 0, limit |-> MaxLimit, status |-> None, priority |-> None, tag |-> None,
     search |-> None, due_before |-> None, due_after |-> None,
     sort |-> "created_at", order |-> S_desc]

StatusParams == {None, Some(S_blank), Some(S_completed), Some(<<"P", "E", "N", "D", "I", "N", "G">>),
                 Some(<<"a", "l", "l">>)}
PriorityParams == {None, Some(S_blank), Some(<<"H", "i", "g", "h">>), Some(S_low)}
TagParams == {None, Some(<<>>), Some(S_a), Some(S_apostrophe), Some(S_percent)}
SearchParams == {None, Some(S_a), Some(S_underscore)}
DueBeforeParams == {None, Some(<<"x">>), Some(<<"0", "5", "Z">>)}
DueAfterParams == {None, Some(S_blank), Some(<<"0", "5">>)}
SortParams == valid_sort_fields \cup {"id", "TITLE", ""}
OrderParams == {S_desc, S_asc, <<"A", "S", "C">>, <<>>, <<"u", "p">>}
SkipParams == {-1, 0, 1, MaxRows + 1}
LimitParams == {-1, 0, 1, 2, MaxLimit, MaxLimit + 1, 10 * MaxLimit}

\* the requests of the model: every combination of the filters, of sort and
\* order under two status filters, and of skip and limit under two sorts
FilterQueries ==
    {[DefaultQuery EXCEPT !.status = s, !.priority = p, !.tag = g, !.search = x,
                          !.due_before = b, !.due_after = a] :
        s \in StatusParams, p \in PriorityParams, g \in TagParams, x \in SearchParams,
        b \in DueBeforeParams, a \in DueAfterParams}

SortQueries ==
    {[DefaultQuery EXCEPT !.sort = f, !.order = o, !.status = s] :
        f \in SortParams, o \in OrderParams, s \in {None, Some(S_completed)}}

PageQueries ==
    {[DefaultQuery EXCEPT !.skip = k, !.limit = l, !.sort = f, !.tag = g] :
        k \in SkipParams, l \in LimitParams, f \in {"title", "id"}, g \in {None, Some(S_percent)}}

Queries == FilterQueries \cup SortQueries \cup PageQueries

InitQuery ==
    /\ tasks \in QueryStores
    /\ next_id = Cardinality(Fixture) + 1
    /\ users = {}
    /\ now = 0
    /\ ticks = 0
    /\ issued = None
    /\ plain = <<>>
    /\ resp = NoResp
    /\ registering = NoRequests
    /\ email_unique = TRUE

\* get_tasks leaves the store as it is, so a second request reaches no state
\* that a first request does not: each behaviour handles one request
NextQuery ==
    /\ resp = NoResp
    /\ \E uid \in UserIds, q \in Queries : get_tasks(uid, q)

SpecQuery == InitQuery /\ [][NextQuery]_vars

(***************************************************************************)
(* Tokens: create_access_token, verify_token and get_current_user_id.      *)
(* A JWT is its claims and a signature; the HS256 signature of claims c    *)
(* under key k is the pair of k and c, so that it verifies for no other    *)
(* key and no other claims.  A claim sub is None when absent, else         *)
(* Some([kind, v]) with kind "str" or "int" (the JSON type of the value).  *)
(* Times are whole seconds, as jose encodes and compares them.             *)
(***************************************************************************)
SECRET_KEY == "better_auth_secret"
AttackerKey == "attacker_key"

\* timedelta(minutes=15), in seconds
DefaultExpire == 15 * 60

\* timedelta(minutes=10080), in seconds
LoginExpire == 10080 * 60

str_sub(uid) == Some([kind |-> "str", v |-> uid])

\* jwt.encode(claims, key, algorithm=ALGORITHM)
jwt_encode(claims, key) ==
    [wellformed |-> TRUE, claims |-> claims, sig |-> [key |-> key, claims |-> claims]]

\* a credential that is no JWT at all
Garbage == [wellformed |-> FALSE, claims |-> [sub |-> None, exp |-> None],
            sig |-> [key |-> AttackerKey, claims |-> [sub |-> None, exp |-> None]]]

\* bool(expires_delta): None and timedelta(0) are both falsy
truthy_delta(expires_delta) == expires_delta # None /\ expires_delta[1] # 0

\* create_access_token(data, expires_delta)
create_access_token(data, expires_delta) ==
    LET expire == IF truthy_delta(expires_delta) THEN now + expires_delta[1]
                  ELSE now + DefaultExpire
    IN jwt_encode([sub |-> data.sub, exp |-> Some(expire)], SECRET_KEY)

\* jwt.decode(token, key, algorithms=[ALGORITHM]): the claims, or a JWTError
\* for a malformed token, a signature that does not verify, an exp before the
\* current second, or a sub that is not a string
jwt_decode(token, key) ==
    IF ~token.wellformed THEN [ok |-> FALSE, error |-> "JWTError"]
    ELSE IF token.sig # [key |-> key, claims |-> token.claims]
    THEN [ok |-> FALSE, error |-> "JWTError"]
    ELSE IF token.claims.exp # None /\ token.claims.exp[1] < now
    THEN [ok |-> FALSE, error |-> "ExpiredSignatureError"]
    ELSE IF token.claims.sub # None /\ token.claims.sub[1].kind # "str"
    THEN [ok |-> FALSE, error |-> "JWTClaimsError"]
    ELSE [ok |-> TRUE, payload |-> token.claims]

returned(value) == [raised |-> FALSE, value |-> value]
raised(error) == [raised |-> TRUE, value |-> None, error |-> error]

\* a faulty verify_token: the JWTError of jwt.decode is not caught
verify_token_no_except(token) ==
    LET decoded == jwt_decode(token, SECRET_KEY)
    IN IF ~decoded.ok THEN raised(decoded.error)
       ELSE IF decoded.payload.sub = None THEN returned(None)
       ELSE returned(Some([user_id |-> decoded.payload.sub[1].v]))

\* verify_token(token): None, TokenData, or the exception it lets through
verify_token(token) ==
    LET decoded == jwt_decode(token, SECRET_KEY)
    IN IF ~decoded.ok THEN returned(None)
       ELSE IF decoded.payload.sub = None THEN returned(None)
       ELSE IF decoded.payload.sub[1].kind # "str" THEN raised("ValidationError")
       ELSE returned(Some([user_id |-> decoded.payload.sub[1].v]))

\* get_current_user_id(credentials): the user id, or the HTTPException
get_current_user_id(token) ==
    LET token_data == verify_token(token)
    IN IF token_data.raised THEN [status |-> 500, user_id |-> None]
       ELSE IF token_data.value = None THEN [status |-> 401, user_id |-> None]
       ELSE [status |-> 200, user_id |-> Some(token_data.value[1].user_id)]

\* the data dictionaries create_access_token is given
TokenData_inputs ==
    {[sub |-> str_sub("u1")], [sub |-> None], [sub |-> Some([kind |-> "int", v |-> "1"])]}

\* the expires_delta create_access_token is given, in seconds
ExpiresDeltas == {None, Some(0), Some(-1), Some(LoginExpire)}

ClockSteps == {1, DefaultExpire, LoginExpire}

\* the credentials a client can present: anything, what an attacker signs
\* with a key of their own, the issued token, and the issued token with its
\* claims altered under the old signature
Credentials ==
    {Garbage}
        \cup {jwt_encode([sub |-> str_sub(u), exp |-> Some(now + LoginExpire)], AttackerKey) :
                 u \in UserIds}
        \cup (IF issued = None THEN {}
              ELSE {issued[1].token,
                    [issued[1].token EXCEPT !.claims.exp = Some(now + LoginExpire)]}
                   \cup {[issued[1].token EXCEPT !.claims.sub = str_sub(u)] : u \in UserIds})

TaskVarsUnchanged == UNCHANGED <<tasks, next_id>>

\* the clock advances
Tick(d) ==
    /\ ticks < MaxTicks
    /\ now' = now + d
    /\ ticks' = ticks + 1
    /\ UNCHANGED <<tasks, next_id, users, issued, plain, resp, registering, email_unique>>

\* a call of create_access_token
issue_token(data, expires_delta) ==
    /\ LET token == create_access_token(data, expires_delta) IN
        /\ issued' = Some([token |-> token, data |-> data, issued_at |-> now,
                           expires_delta |-> expires_delta])
        /\ resp' = [op |-> "issue", token |-> token]
    /\ UNCHANGED <<users, now, ticks, plain, registering, email_unique>>
    /\ TaskVarsUnchanged

\* a call of verify_token
verify_token_call(token) ==
    /\ resp' = [op |-> "verify", token |-> token, at |-> now, result |-> verify_token(token)]
    /\ UNCHANGED <<users, now, ticks, issued, plain, registering, email_unique>>
    /\ TaskVarsUnchanged

\* POST /tasks with a bearer credential: the handler runs only if the
\* dependency get_current_user_id returned a user id
authenticated_create_task(token, body) ==
    /\ next_id <= MaxGuarded
    /\ LET who == get_current_user_id(token) IN
        IF who.status # 200
        THEN /\ resp' = [op |-> "request", token |-> token, at |-> now,
                         status |-> who.status, requester |-> None]
             /\ TaskVarsUnchanged
        ELSE /\ tasks' = tasks \cup {create_task_row(body, who.user_id[1], next_id)}
             /\ next_id' = next_id + 1
             /\ resp' = [op |-> "request", token |-> token, at |-> now,
                         status |-> 201, requester |-> who.user_id]
    /\ UNCHANGED <<users, now, ticks, issued, plain, registering, email_unique>>

NextToken ==
    \/ \E d \in ClockSteps : Tick(d)
    \/ \E data \in TokenData_inputs, delta \in ExpiresDeltas : issue_token(data, delta)
    \/ \E token \in Credentials : verify_token_call(token)
    \/ \E token \in Credentials : authenticated_create_task(token, [title |-> S_a])

SpecToken == Init /\ [][NextToken]_vars

(***************************************************************************)
(* Passwords, register and login.  A password is a sequence of runs        *)
(* [c, n]: the character c repeated n times, adjacent runs of different    *)
(* characters; "a" is one byte in UTF-8 and "e_acute" (U+00E9) is two.  A  *)
(* bcrypt digest                                                           *)
(* is its salt and the secret it was computed from; the secret is read     *)
(* only to decide pwd_context.verify.                                      *)
(***************************************************************************)
BcryptLimit == 72

utf8_width(c) == IF c = "a" THEN 1 ELSE 2

\* len(password.encode('utf-8'))
RECURSIVE byte_len(_)
byte_len(password) ==
    IF password = <<>> THEN 0
    ELSE Head(password).n * utf8_width(Head(password).c) + byte_len(Tail(password))

\* password.encode('utf-8')[:limit].decode('utf-8', errors='ignore'): the
\* characters that lie whole within the first limit bytes
RECURSIVE truncate(_, _)
truncate(password, limit) ==
    IF password = <<>> THEN <<>>
    ELSE LET run == Head(password)
             fit == limit \div utf8_width(run.c)
         IN IF run.n <= fit
            THEN <<run>> \o truncate(Tail(password), limit - run.n * utf8_width(run.c))
            ELSE IF fit = 0 THEN <<>>
            ELSE <<[c |-> run.c, n |-> fit]>>

\* pwd_context.hash(secret): bcrypt refuses a secret longer than 72 bytes
pwd_context_hash(secret, salt) ==
    IF byte_len(secret) > BcryptLimit
    THEN [ok |-> FALSE, error |-> "password cannot be longer than 72 bytes"]
    ELSE [ok |-> TRUE, digest |-> [salt |-> salt, secret |-> secret]]

\* pwd_context.verify(secret, hash)
pwd_context_verify(secret, hash) ==
    IF byte_len(secret) > BcryptLimit
    THEN [ok |-> FALSE, error |-> "password cannot be longer than 72 bytes"]
    ELSE [ok |-> TRUE, value |-> (secret = hash.secret)]

\* a faulty get_password_hash: the password is hashed as given
get_password_hash_no_truncate(password, salt) == pwd_context_hash(password, salt)

\* get_password_hash(password), with the salt bcrypt draws
get_password_hash(password, salt) ==
    LET shortened == IF byte_len(password) > BcryptLimit
                     THEN truncate(password, BcryptLimit) ELSE password
        first == pwd_context_hash(shortened, salt)
    IN IF first.ok THEN first
       ELSE IF first.error = "password cannot be longer than 72 bytes"
               \/ byte_len(shortened) > BcryptLimit
       THEN pwd_context_hash(truncate(shortened, BcryptLimit), salt)
       ELSE first

\* a faulty verify_password: the slice is [:71]
verify_password_short_slice(plain_password, hashed_password) ==
    pwd_context_verify(IF byte_len(plain_password) > BcryptLimit
                       THEN truncate(plain_password, BcryptLimit - 1)
                       ELSE plain_password, hashed_password)

\* verify_password(plain_password, hashed_password)
verify_password(plain_password, hashed_password) ==
    LET shortened == IF byte_len(plain_password) > BcryptLimit
                     THEN truncate(plain_password, BcryptLimit) ELSE plain_password
        first == pwd_context_verify(shortened, hashed_password)
    IN IF first.ok THEN first
       ELSE IF first.error = "password cannot be longer than 72 bytes"
       THEN pwd_context_verify(truncate(shortened, BcryptLimit), hashed_password)
       ELSE first

run(c, n) == [c |-> c, n |-> n]

\* the passwords of the model, around the 72-byte limit
Passwords ==
    { <<run("a", 1)>>,
      <<run("a", BcryptLimit - 1)>>,
      <<run("a", BcryptLimit)>>,
      <<run("a", BcryptLimit + 1)>>,
      <<run("a", BcryptLimit - 1), run("e_acute", 1)>>,
      <<run("a", BcryptLimit), run("e_acute", 1)>> }

Emails == {"a@x.com", "b@x.com"}

\* session.exec(select(User).where(User.email == email)).first()
user_by_email(email) == {u \in users : u.email = email}

auth_resp(op, email, password, status, token) ==
    [op |-> op, email |-> email, password |-> password, status |-> status, token |-> token]

\* POST /register
register_user(email, password, salt) ==
    /\ IF user_by_email(email) # {}
       THEN /\ resp' = auth_resp("register", email, password, 400, None)
            /\ UNCHANGED <<users, plain, issued>>
       ELSE LET hashed_password == get_password_hash(password, salt) IN
            IF ~hashed_password.ok
            THEN /\ resp' = auth_resp("register", email, password, 500, None)
                 /\ UNCHANGED <<users, plain, issued>>
            ELSE \E id \in UserIds \ {u.id : u \in users} :
                    LET new_user == [id |-> id, email |-> email,
                                     hashed_password |-> hashed_password.digest]
                        data == [sub |-> str_sub(new_user.id)]
                        access_token == create_access_token(data, Some(LoginExpire))
                    IN /\ users' = users \cup {new_user}
                       /\ plain' = [e \in DOMAIN plain \cup {email} |->
                                       IF e = email THEN password ELSE plain[e]]
                       /\ issued' = Some([token |-> access_token, data |-> data,
                                          issued_at |-> now,
                                          expires_delta |-> Some(LoginExpire)])
                       /\ resp' = auth_resp("register", email, password, 200,
                                            Some(access_token))
    /\ UNCHANGED <<now, ticks, registering, email_unique>>
    /\ TaskVarsUnchanged

\* POST /login
login_user(username, password) ==
    /\ LET found == user_by_email(username)
           checked == IF found = {} THEN [ok |-> TRUE, value |-> FALSE]
                      ELSE verify_password(password,
                                           (CHOOSE u \in found : TRUE).hashed_password)
       IN IF ~checked.ok
          THEN /\ resp' = auth_resp("login", username, password, 500, None)
               /\ UNCHANGED issued
          ELSE IF found = {} \/ ~checked.value
          THEN /\ resp' = auth_resp("login", username, password, 401, None)
               /\ UNCHANGED issued
          ELSE LET user == CHOOSE u \in found : TRUE
                   data == [sub |-> str_sub(user.id)]
                   access_token == create_access_token(data, Some(LoginExpire))
               IN /\ issued' = Some([token |-> access_token, data |-> data,
                                     issued_at |-> now,
                                     expires_delta |-> Some(LoginExpire)])
                  /\ resp' = auth_resp("login", username, password, 200, Some(access_token))
    /\ UNCHANGED <<users, plain, now, ticks, registering, email_unique>>
    /\ TaskVarsUnchanged

NextAuth ==
    \/ \E email \in Emails, password \in Passwords, salt \in 1..NumSalts :
          register_user(email, password, salt)
    \/ \E email \in Emails, password \in Passwords : login_user(email, password)

SpecAuth == Init /\ [][NextAuth]_vars

(***************************************************************************)
(* POST /register handled concurrently.  register_user is a plain def, so  *)
(* the server runs each request on a thread of its pool with a session of  *)
(* its own: the select of the existence check and the insert of the        *)
(* commit are separate statements, and other requests run between them.    *)
(***************************************************************************)
MaxRequests == 2

Requests == 1..MaxRequests

RegisterPasswords == { <<run("a", 1)>>, <<run("a", 2)>> }

\* the id the user table gives a new row: unlike every other row's
new_user_id(r) == "u" \o ToString(r)

pending(email, password) == [pc |-> "checked", email |-> email, password |-> password]

done(email, password, status) ==
    [pc |-> "done", email |-> email, password |-> password, status |-> status]

arrived(r, request) ==
    [q \in DOMAIN registering \cup {r} |-> IF q = r THEN request ELSE registering[q]]

\* a request arrives and runs the existence check: it raises 400 when the
\* select returns a row, and goes on to hash and insert when it returns none
register_check(r, email, password) ==
    /\ r \notin DOMAIN registering
    /\ r = Cardinality(DOMAIN registering) + 1
    /\ IF user_by_email(email) # {}
       THEN /\ registering' = arrived(r, done(email, password, 400))
            /\ resp' = auth_resp("register", email, password, 400, None)
       ELSE /\ registering' = arrived(r, pending(email, password))
            /\ UNCHANGED resp
    /\ UNCHANGED <<users, plain, issued, now, ticks, email_unique>>
    /\ TaskVarsUnchanged

\* the rest of the handler: hash, session.add and session.commit, then the
\* token.  Nothing catches what commit raises when the table refuses the
\* row, so that request is answered 500
register_commit(r, salt) ==
    /\ r \in DOMAIN registering
    /\ registering[r].pc = "checked"
    /\ LET email == registering[r].email
           password == registering[r].password
           hashed_password == get_password_hash(password, salt)
       IN IF ~hashed_password.ok \/ (email_unique /\ user_by_email(email) # {})
          THEN /\ registering' = [registering EXCEPT ![r] = done(email, password, 500)]
               /\ resp' = auth_resp("register", email, password, 500, None)
               /\ UNCHANGED <<users, plain, issued>>
          ELSE LET new_user == [id |-> new_user_id(r), email |-> email,
                                hashed_password |-> hashed_password.digest]
                   data == [sub |-> str_sub(new_user.id)]
                   access_token == create_access_token(data, Some(LoginExpire))
               IN /\ users' = users \cup {new_user}
                  /\ plain' = [e \in DOMAIN plain \cup {email} |->
                                  IF e = email THEN password ELSE plain[e]]
                  /\ issued' = Some([token |-> access_token, data |-> data,
                                     issued_at |-> now,
                                     expires_delta |-> Some(LoginExpire)])
                  /\ registering' = [registering EXCEPT ![r] = done(email, password, 200)]
                  /\ resp' = auth_resp("register", email, password, 200,
                                       Some(access_token))
    /\ UNCHANGED <<now, ticks, email_unique>>
    /\ TaskVarsUnchanged

\* the user table is declared in models.py: with or without a unique email
InitRegister ==
    /\ tasks = {}
    /\ next_id = 1
    /\ users = {}
    /\ now = 0
    /\ ticks = 0
    /\ issued = None
    /\ plain = <<>>
    /\ resp = NoResp
    /\ registering = NoRequests
    /\ email_unique \in BOOLEAN

NextRegister ==
    \/ \E r \in Requests, email \in Emails, password \in RegisterPasswords :
          register_check(r, email, password)
    \/ \E r \in Requests, salt \in 1..NumSalts : register_commit(r, salt)

SpecRegister == InitRegister /\ [][NextRegister]_vars

(***************************************************************************)
(* Claims about the task routes, checked under Spec.                       *)
(***************************************************************************)
ByIdOps == {"get", "put", "patch", "delete", "toggle"}

\* C1: a get, PUT, PATCH, delete or toggle of a stored task by a requester who
\* is not its owner answers 404, carries no task data and changes no stored task.
C1_CrossUserNotFound ==
    [][ (/\ resp'.op \in ByIdOps
         /\ \E t \in tasks : t.id = resp'.task_id /\ t.user_id # resp'.requester)
        => (resp'.status = 404 /\ resp'.body = None /\ tasks' = tasks) ]_vars

C1_Witness ==
    /\ resp.op = "delete"
    /\ resp.status = 404
    /\ \E t \in tasks : t.id = resp.task_id /\ t.user_id # resp.requester

\* C3: a row enters the table only through create_task and is owned by that
\* request's requester whatever owner the body names; no later step changes a
\* stored row's user_id, and no row has a null user_id.
C3_OwnerIsCreator ==
    [][ /\ \A t \in tasks : \A t2 \in tasks' : t2.id = t.id => t2.user_id = t.user_id
        /\ \A t2 \in tasks' :
              (\A t \in tasks : t.id # t2.id)
                  => (resp'.op = "create" /\ resp'.task_id = t2.id
                      /\ t2.user_id = resp'.requester)
        /\ \A t2 \in tasks' : t2.user_id \in UserIds ]_vars

C3_Witness ==
    /\ resp.op = "create"
    /\ "user_id" \in DOMAIN resp.payload
    /\ resp.payload.user_id # resp.requester
    /\ \E t \in tasks : t.id = resp.task_id /\ t.user_id = resp.requester
    /\ \E t \in tasks : t.id # resp.task_id /\ t.user_id # resp.requester

\* the stored row with this id
row(table, task_id) == CHOOSE t \in table : t.id = task_id

\* every field of the row but those named is as it was
same_but(old, new, fields) ==
    DOMAIN new = DOMAIN old /\ \A f \in DOMAIN old \ fields : new[f] = old[f]

\* C11: a PUT or PATCH that finds the requester's task sets every field of the
\* update schema that the payload carries to the payload's value and leaves
\* every other field of the row as it was; a toggle negates completed and
\* leaves every other field as it was, so that a toggle right after a toggle
\* of the same task gives back the row the first one found; in each case
\* every other stored task is unchanged and the response is the stored row.
C11_UpdateFrame ==
    [][ (resp'.op \in {"put", "patch", "toggle"} /\ resp'.status = 200)
        => LET old == row(tasks, resp'.task_id)
               new == row(tasks', resp'.task_id)
           IN /\ old \in tasks /\ new \in tasks'
              /\ old.user_id = resp'.requester
              /\ tasks' \ {new} = tasks \ {old}
              /\ resp'.body = Some(new)
              /\ resp'.op \in {"put", "patch"} =>
                    LET payload == resp'.payload[1]
                        present == DOMAIN payload \cap TaskUpdateFields
                    IN /\ \A f \in present : new[f] = payload[f]
                       /\ same_but(old, new, present)
              /\ resp'.op = "toggle" =>
                    /\ new.completed = ~old.completed
                    /\ same_but(old, new, {"completed"})
                    /\ (resp.op = "toggle" /\ resp.status = 200
                            /\ resp.task_id = resp'.task_id) => new = resp.found ]_vars

C11_Witness ==
    /\ resp.op = "patch"
    /\ resp.status = 200
    /\ resp.requester = "u1"
    /\ resp.payload = Some([user_id |-> "u2", completed |-> FALSE])
    /\ resp.found.completed = TRUE /\ resp.found.title = S_b
    /\ resp.body[1].completed = FALSE /\ resp.body[1].title = S_b
    /\ resp.body[1].user_id = "u1"
    /\ resp.body[1] \in tasks
    /\ \E t \in tasks : t.id # resp.task_id /\ t.user_id = "u1"

(***************************************************************************)
(* Claims about GET /tasks, checked under SpecQuery.                       *)
(***************************************************************************)
Min(a, b) == IF a < b THEN a ELSE b
Max(a, b) == IF a < b THEN b ELSE a

Listed == resp.op = "list" /\ resp.status = 200

\* x occurs in s as a run of consecutive characters
substring(s, x) == \E i \in 0..(Len(s) - Len(x)) : SubSeq(s, i + 1, i + Len(x)) = x

blank(p) == p = None \/ strip(p[1]) = <<>>

\* C2: whatever the filter, sort and pagination parameters, every task that
\* get_tasks returns is a stored task whose user_id is the requester.
C2_ListOnlyOwn ==
    Listed => \A i \in 1..Len(resp.body[1]) :
                 resp.body[1][i] \in tasks /\ resp.body[1][i].user_id = resp.requester

C2_Witness ==
    /\ Listed
    /\ Len(resp.body[1]) >= 1
    /\ resp.query.tag = Some(S_percent)
    /\ resp.query.limit = MaxLimit
    /\ \E t \in tasks : t.user_id # resp.requester /\ t.tags # None

\* C8 (as claimed): a sort outside the allow-list yields the rows by created_at
\* descending; an allow-listed sort yields them ascending exactly when order
\* is 'asc' in any letter case, and descending otherwise.
C8_SortFallback ==
    Listed =>
        IF resp.query.sort \in valid_sort_fields
        THEN ordered(resp.body[1], resp.query.sort, lower(resp.query.order) = S_asc)
        ELSE ordered(resp.body[1], "created_at", FALSE)

\* the number of rows the request's filters select
selected_count == Cardinality(where(resp.requester, resp.query))

\* C9 (amended): a limit above 100 is refused with 422 and no task; an
\* accepted request returns at most limit <= 100 tasks; a skip at or beyond
\* the number of selected tasks returns the empty list with status 200.
C9_LimitRejected ==
    resp.op = "list" =>
        /\ resp.query.limit > MaxLimit => resp.status = 422 /\ resp.body = None
        /\ resp.status = 200 =>
              /\ resp.query.limit <= MaxLimit
              /\ Len(resp.body[1]) <= resp.query.limit
              /\ Len(resp.body[1]) =
                    Max(0, Min(resp.query.limit, selected_count - resp.query.skip))
        /\ (/\ resp.query.skip >= selected_count
            /\ resp.query.limit >= 0
            /\ resp.query.limit <= MaxLimit)
              => resp.status = 200 /\ resp.body = Some(<<>>)

C9_Witness ==
    /\ resp.op = "list"
    /\ resp.query.limit = 10 * MaxLimit
    /\ resp.query.skip = 0
    /\ resp.status = 422
    /\ selected_count >= 2

\* C9 (as claimed): a limit above 100 is accepted and capped to 100 results,
\* and a skip at or beyond the number of selected tasks returns the empty list.
C9_LimitCapped ==
    (resp.op = "list" /\ resp.query.skip >= 0 /\ resp.query.limit > MaxLimit) =>
        /\ resp.status = 200
        /\ resp.body # None
        /\ Len(resp.body[1]) = Max(0, Min(MaxLimit, selected_count - resp.query.skip))

\* the filters as the specification states them
C10_status(q, t) ==
    IF blank(q.status) THEN TRUE
    ELSE IF lower(q.status[1]) = S_completed THEN t.completed
    ELSE IF lower(q.status[1]) = S_pending THEN ~t.completed
    ELSE TRUE

C10_priority(q, t) ==
    blank(q.priority) \/ (t.priority # None /\ lower(t.priority[1]) = lower(q.priority[1]))

C10_tag(q, t) == blank(q.tag) \/ (t.tags # None /\ substring(t.tags[1], q.tag[1]))

C10_search(q, t) ==
    \/ blank(q.search)
    \/ substring(t.title, q.search[1])
    \/ (t.description # None /\ substring(t.description[1], q.search[1]))

C10_due(p, t, before) ==
    \/ blank(p)
    \/ fromisoformat(replace(p[1], "Z", S_utc)) = None
    \/ /\ t.due_date # None
       /\ IF before THEN t.due_date[1] <= fromisoformat(replace(p[1], "Z", S_utc))[1]
          ELSE t.due_date[1] >= fromisoformat(replace(p[1], "Z", S_utc))[1]

C10_expected ==
    {t \in tasks :
        /\ t.user_id = resp.requester
        /\ C10_status(resp.query, t)
        /\ C10_priority(resp.query, t)
        /\ C10_tag(resp.query, t)
        /\ C10_search(resp.query, t)
        /\ C10_due(resp.query.due_before, t, TRUE)
        /\ C10_due(resp.query.due_after, t, FALSE)}

\* C10 (as claimed): get_tasks returns, before pagination, exactly the
\* requester's tasks that satisfy every supplied filter: a page of them without
\* repetition, of the size their number, skip and limit give.
C10_ExactFilter ==
    Listed =>
        /\ \A i \in 1..Len(resp.body[1]) : resp.body[1][i] \in C10_expected
        /\ \A i, j \in 1..Len(resp.body[1]) : i # j => resp.body[1][i] # resp.body[1][j]
        /\ Len(resp.body[1]) =
              Max(0, Min(resp.query.limit, Cardinality(C10_expected) - resp.query.skip))

(***************************************************************************)
(* Claims about tokens, checked under SpecToken.                           *)
(***************************************************************************)
\* the response is the verification of the token last issued
VerifiedIssued ==
    /\ resp.op = "verify"
    /\ issued # None
    /\ resp.token = issued[1].token

\* C4 (as claimed): a token issued with ttl 0 fails verification at every
\* instant from its issue on; a token whose issue time plus requested ttl is
\* in the past fails verification; no token is valid after issue time plus
\* the requested ttl.
C4_ExpiredTokenFails ==
    (VerifiedIssued /\ issued[1].expires_delta # None) =>
        /\ issued[1].expires_delta = Some(0) => resp.result.value = None
        /\ issued[1].issued_at + issued[1].expires_delta[1] < resp.at
              => resp.result.value = None
        /\ resp.result.value # None
              => resp.at <= issued[1].issued_at + issued[1].expires_delta[1]

\* what the claim calls an invalid token, at the time of the request
C5_invalid(token, at) ==
    \/ ~token.wellformed
    \/ token.sig.key # SECRET_KEY
    \/ token.sig.claims # token.claims
    \/ (token.claims.exp # None /\ token.claims.exp[1] < at)
    \/ token.claims.sub = None
    \/ token.claims.sub[1].kind # "str"

C5_verify(r) ==
    r.op = "verify" =>
        /\ ~r.result.raised
        /\ C5_invalid(r.token, r.at) => r.result.value = None
        /\ r.result.value # None =>
              /\ issued # None
              /\ r.token = issued[1].token
              /\ issued[1].data.sub = str_sub(r.result.value[1].user_id)
              /\ r.at <= r.token.claims.exp[1]

C5_request(r) ==
    r.op = "request" =>
        /\ C5_invalid(r.token, r.at) => r.status = 401 /\ r.requester = None
        /\ r.status = 201 =>
              /\ issued # None
              /\ r.token = issued[1].token
              /\ issued[1].data.sub = str_sub(r.requester[1])

\* C5: verify_token never raises; it returns None for a malformed token, a
\* signature mismatch, a past expiry and a missing or non-string subject;
\* when it returns a user id the token is the issued one, unexpired, and the
\* id is the subject it was issued for.  A request with an invalid token is
\* answered 401 and the step leaves the task table as it was.
C5_FailClosed ==
    [][ /\ C5_verify(resp')
        /\ C5_request(resp')
        /\ (resp'.op = "request" /\ resp'.status = 401)
              => (tasks' = tasks /\ next_id' = next_id) ]_vars

C5_Witness ==
    /\ resp.op = "request"
    /\ resp.status = 401
    /\ issued # None
    /\ resp.token.sig = issued[1].token.sig
    /\ resp.token.claims.sub = str_sub("u2")
    /\ issued[1].data.sub = str_sub("u1")

(***************************************************************************)
(* Claims about passwords, register and login, checked under SpecAuth.     *)
(***************************************************************************)
Registered(op) == resp.op = op /\ resp.status = 200

\* C6 (amended): register never fails on the password's length: it stores
\* the digest of the characters that lie whole within the password's first
\* 72 bytes, which is the password itself when it has at most 72 bytes.
C6_HashTruncates ==
    resp.op = "register" =>
        /\ resp.status \in {200, 400}
        /\ resp.status = 200 =>
              /\ resp.token # None
              /\ \E u \in users :
                    /\ u.email = resp.email
                    /\ u.hashed_password.secret = truncate(resp.password, BcryptLimit)
                    /\ byte_len(u.hashed_password.secret) <= BcryptLimit
                    /\ byte_len(resp.password) <= BcryptLimit
                          => u.hashed_password.secret = resp.password
        /\ resp.status = 400 => resp.token = None

C6_Witness ==
    /\ Registered("register")
    /\ byte_len(resp.password) = BcryptLimit + 1
    /\ \E u \in users :
          u.email = resp.email /\ byte_len(u.hashed_password.secret) = BcryptLimit - 1

\* C6 (as claimed): register with a password of more than 72 bytes fails and
\* creates no user, and every digest is of the password that was given.
C6_LongPasswordRejected ==
    /\ (resp.op = "register" /\ byte_len(resp.password) > BcryptLimit)
          => (resp.status = 400 /\ resp.token = None)
    /\ \A u \in users : u.hashed_password.secret = plain[u.email]

\* C7 (amended): login for a registered email succeeds, and issues a token
\* for that user, exactly when the presented password and the registered one
\* agree on the characters that lie whole within their first 72 bytes; every
\* other login, and every login for an unregistered email, is answered 401
\* with no token.
C7_LoginByTruncatedPassword ==
    resp.op = "login" =>
        /\ resp.status \in {200, 401}
        /\ resp.status = 200 <=>
              /\ resp.email \in DOMAIN plain
              /\ truncate(resp.password, BcryptLimit)
                    = truncate(plain[resp.email], BcryptLimit)
        /\ resp.status = 401 => resp.token = None
        /\ resp.status = 200 =>
              /\ resp.token # None
              /\ \E u \in users :
                    u.email = resp.email /\ resp.token[1].claims.sub = str_sub(u.id)

C7_Witness ==
    /\ Registered("login")
    /\ resp.password # plain[resp.email]
    /\ byte_len(plain[resp.email]) = BcryptLimit
    /\ byte_len(resp.password) > BcryptLimit

\* C7 (as claimed): login succeeds and issues a token only when the presented
\* password equals the registered one; any other password, and any
\* unregistered email, is answered 401 with no token.
C7_LoginOnlyWithPassword ==
    resp.op = "login" =>
        /\ resp.status = 200 <=>
              (resp.email \in DOMAIN plain /\ resp.password = plain[resp.email])
        /\ resp.status # 200 => (resp.status = 401 /\ resp.token = None)

(***************************************************************************)
(* Claims about concurrent registration, checked under SpecRegister.       *)
(***************************************************************************)
answered(r) == r \in DOMAIN registering /\ registering[r].pc = "done"

\* C12 (as claimed): whatever the interleaving of the register requests, no
\* two stored users have the same email, and of two answered requests for the
\* same email at most one is answered 200 and then the other is answered 400.
C12_EmailUniqueUnderRace ==
    /\ \A u \in users : \A v \in users : u.email = v.email => u = v
    /\ \A r \in Requests : \A q \in Requests \ {r} :
          (/\ answered(r) /\ answered(q)
           /\ registering[r].email = registering[q].email
           /\ registering[r].status = 200)
              => registering[q].status = 400

====
